---- MODULE Spec2Model ----
(***************************************************************************)
(* Model of the tiak download server: the job store (db.rs), the download  *)
(* queue with its scheduler loop and runner tasks (queue.rs), the delete   *)
(* and import routes (routes.rs), the maintenance tasks (cleanup.rs) and   *)
(* the startup sequence (main.rs).                                         *)
(***************************************************************************)
EXTENDS Integers, Sequences, FiniteSets, TLC

\* ------------------------------------------------------------------------
\* Bounds of the model
\* ------------------------------------------------------------------------
\* How many client requests and process restarts a behaviour contains.
MaxCalls == 3

\* How many lines the stdout task reads from one child process.
MaxRead == 3

\* The clock stops at MaxTime; the flat list holds at most MaxFiles items.
MaxTime == 2
MaxFiles == 2
MaxLines == 103

\* ------------------------------------------------------------------------
\* Program constants
\* ------------------------------------------------------------------------
DefaultMaxConcurrent == 2

\* One id more than the call budget, so that a specification with one more
\* call can use it.
JobIds == 1..(MaxCalls + 1)
Limits == 0..DefaultMaxConcurrent
ResolvedNames == {"video.mp4"}
Null == "null"
NoEta == -1

MsgCancelled == "Job cancelled"
MsgExit == "Process exited with code 1"
MsgSpawn == "No such file or directory (os error 2)"

VARIABLES
    store,      \* the jobs table: id -> row, or NoRow
    queue,      \* DownloadQueue.queue: pending entries, head first
    active,     \* DownloadQueue.active_jobs: id -> token (0 = no entry)
    maxc,       \* DownloadQueue.max_concurrent
    permit,     \* DownloadQueue.notify: a stored wake-up permit
    sched,      \* the scheduler task spawned by DownloadQueue::new
    runners,    \* the download tasks spawned by start_download_task
    call,       \* the cancel / delete request in flight
    main,       \* position of main() in the startup sequence
    nextId,     \* next fresh job id
    left,       \* how many client requests and restarts may still be made
    stale,      \* history: jobs left downloading by the previous run, not yet reset
    cq,         \* history: jobs cancelled while queued and not retried since
    cd,         \* history: jobs cancelled while downloading, outcome still owed
    loaded,     \* history: the ids the last load_initial_state appended
    task        \* the stdout task of run_yt_dlp (one runner followed)

VARIABLES
    disk,         \* the files under data/: path -> creation time (0 = no file)
    now,          \* the clock the file and marker timestamps are taken from
    files,        \* FileIndex.files: the flat list
    last_scan,    \* FileIndex.last_scan
    cached_index, \* FileIndex.cached_index: <<>> (None) or <<view>> (Some)
    ops,          \* the calls into the file index in flight, one per thread
    added,        \* history: paths whose add_file returned, still on disk
    seen          \* history: the views get_index returned since the last mutation

VARIABLES
    sync_state,   \* DownloadQueue.sync_state (status and error)
    marker,       \* modification time of data/.last_sync (0 = no marker)
    sync,         \* the run_sync calls and the tasks they spawned
    unsynced,     \* history: pushes since the last successful sync (-1: none yet)
    sync_view     \* history: the last answer of get_sync_state

queueVars == <<store, queue, active, maxc, permit, sched, runners, call, main,
               nextId, left, stale, cq, cd, loaded, task>>

\* The queue's variables but the budget of calls.
queueState == <<store, queue, active, maxc, permit, sched, runners, call,
                main, nextId, stale, cq, cd, loaded, task>>

indexVars == <<disk, now, files, last_scan, cached_index, ops, added, seen>>

syncVars == <<sync_state, marker, sync, unsynced, sync_view>>

vars == <<queueVars, indexVars, syncVars>>

\* ------------------------------------------------------------------------
\* The job store (db.rs)
\* ------------------------------------------------------------------------
NoRow == [status |-> "absent"]

Job(status, progress, eta, filename, retries, error, started, completed) ==
    [status |-> status, progress |-> progress, eta |-> eta,
     filename |-> filename, retries |-> retries, error |-> error,
     started |-> started, completed |-> completed]

check_job_exists(s, id) == s[id].status # "absent"

get_job(s, id) == s[id]

add_job(s, id) ==
    [s EXCEPT ![id] = Job("queued", 0, NoEta, Null, 0, Null, FALSE, FALSE)]

update_progress(s, id, p, eta) ==
    IF check_job_exists(s, id)
    THEN [s EXCEPT ![id].progress = p, ![id].eta = eta]
    ELSE s

mark_downloading(s, id) ==
    IF check_job_exists(s, id)
    THEN [s EXCEPT ![id].status = "downloading", ![id].started = TRUE]
    ELSE s

\* Faulty variant: the completion leaves the file name unset.
mark_done_without_filename(s, id, filename) ==
    IF check_job_exists(s, id)
    THEN [s EXCEPT ![id].status = "done", ![id].progress = 100,
                   ![id].eta = NoEta, ![id].completed = TRUE]
    ELSE s

mark_done(s, id, filename) ==
    IF check_job_exists(s, id)
    THEN [s EXCEPT ![id].status = "done", ![id].progress = 100,
                   ![id].eta = NoEta, ![id].filename = filename,
                   ![id].completed = TRUE]
    ELSE s

mark_failed(s, id, error) ==
    IF check_job_exists(s, id)
    THEN [s EXCEPT ![id].status = "failed", ![id].error = error,
                   ![id].completed = TRUE]
    ELSE s

\* Faulty variant: the retry leaves the error text in place.
increment_retry_keeps_error(s, id) ==
    IF check_job_exists(s, id)
    THEN [s EXCEPT ![id].retries = @ + 1, ![id].status = "queued",
                   ![id].progress = 0, ![id].eta = NoEta,
                   ![id].started = FALSE, ![id].completed = FALSE]
    ELSE s

increment_retry(s, id) ==
    IF check_job_exists(s, id)
    THEN [s EXCEPT ![id].retries = @ + 1, ![id].status = "queued",
                   ![id].error = Null, ![id].progress = 0, ![id].eta = NoEta,
                   ![id].started = FALSE, ![id].completed = FALSE]
    ELSE s

redownload_job(s, id) ==
    IF check_job_exists(s, id)
    THEN [s EXCEPT ![id].status = "queued", ![id].progress = 0,
                   ![id].eta = NoEta, ![id].error = Null,
                   ![id].retries = @ + 1,
                   ![id].started = FALSE, ![id].completed = FALSE]
    ELSE s

\* Faulty variant: the startup reset touches no row.
reset_nothing(s) == s

reset_crashed_jobs(s) ==
    [id \in DOMAIN s |->
        IF s[id].status = "downloading"
        THEN [s[id] EXCEPT !.status = "failed", !.error = "crashed"]
        ELSE s[id]]

delete_job(s, id) == [s EXCEPT ![id] = NoRow]

import_job(s, id, job) ==
    [s EXCEPT ![id] = [job EXCEPT !.status = "imported", !.retries = 0]]

mark_missing(s, id) ==
    IF check_job_exists(s, id)
    THEN [s EXCEPT ![id].status = "missing"]
    ELSE s

\* Job ids are handed out in creation order, so createdAt orders as the id.
createdAt(id) == id

RECURSIVE OrderByCreatedAsc(_)
OrderByCreatedAsc(S) ==
    IF S = {} THEN <<>>
    ELSE LET first == CHOOSE x \in S : \A y \in S : createdAt(x) <= createdAt(y)
         IN  <<first>> \o OrderByCreatedAsc(S \ {first})

RECURSIVE Reverse(_)
Reverse(q) == IF q = <<>> THEN <<>> ELSE Append(Reverse(Tail(q)), Head(q))

\* Faulty variant: the query orders by createdAt descending.
get_queued_jobs_desc(s) ==
    Reverse(OrderByCreatedAsc({id \in DOMAIN s : s[id].status = "queued"}))

get_queued_jobs(s) ==
    OrderByCreatedAsc({id \in DOMAIN s : s[id].status = "queued"})

\* ------------------------------------------------------------------------
\* The pending queue.  Every entry carries a history ticket that records
\* the order in which the live entries were appended.
\* ------------------------------------------------------------------------
NoHeld == [id |-> 0, tk |-> 0]

Tickets(q, h) ==
    {q[i].tk : i \in 1..Len(q)} \cup (IF h.tk > 0 THEN {h.tk} ELSE {})

Rank(t, S) == Cardinality({x \in S : x <= t})

Renumber(q, S) ==
    [i \in 1..Len(q) |-> [id |-> q[i].id, tk |-> Rank(q[i].tk, S)]]

RenumberHeld(h, S) ==
    IF h.tk > 0 THEN [id |-> h.id, tk |-> Rank(h.tk, S)] ELSE h

MaxOf(S) == IF S = {} THEN 0 ELSE CHOOSE x \in S : \A y \in S : y <= x

\* Faulty variant: the new entry is put at the head.
push_front(q, id, h) ==
    <<[id |-> id, tk |-> MaxOf(Tickets(q, h)) + 1]>> \o q

push_back(q, id, h) == Append(q, [id |-> id, tk |-> MaxOf(Tickets(q, h)) + 1])

pop_front(q) == Tail(q)

front(q) == Head(q)

contains(q, id) == \E i \in 1..Len(q) : q[i].id = id

position(q, id) ==
    CHOOSE i \in 1..Len(q) : q[i].id = id /\ \A j \in 1..(i - 1) : q[j].id # id

remove(q, pos) == [i \in 1..(Len(q) - 1) |-> IF i < pos THEN q[i] ELSE q[i + 1]]

RECURSIVE PushAll(_, _, _)
PushAll(q, ids, h) ==
    IF ids = <<>> THEN q
    ELSE PushAll(IF contains(q, Head(ids)) THEN q ELSE push_back(q, Head(ids), h),
                 Tail(ids), h)

\* ------------------------------------------------------------------------
\* The file index (storage.rs).  A path is the sequence of its components.
\* ------------------------------------------------------------------------
DATA_ROOT == "data"

\* The order in which WalkDir visits the files that may exist under data/.
PathOrder ==
    << <<"data", "2024-05-01", "a.mp4">>,
       <<"data", "2024-05-01", "b.mp4">>,
       <<"data", "2024-05-02", "c.mp4">> >>

Paths == {PathOrder[i] : i \in 1..Len(PathOrder)}

\* The threads that call into the file index and the sync manager.
Threads == 1..2

\* path.strip_prefix(root).unwrap_or(path), then the first component.
date_folder(path) ==
    LET relative == IF path # <<>> /\ path[1] = DATA_ROOT
                    THEN Tail(path) ELSE path
    IN  IF relative # <<>> THEN relative[1] ELSE ""

\* The FileItem of a path with the creation time read from its metadata
\* (the size takes no part in what the index does).
FileItem(path, created) ==
    [path |-> path, name |-> path[Len(path)], created_at |-> created,
     date_folder |-> date_folder(path)]

Folders == {date_folder(p) : p \in Paths}

\* list.sort_by(|a, b| b.created_at.cmp(&a.created_at)): a stable sort, so
\* an item goes after the items that are as new as it is.
InsertDesc(s, x) ==
    LET k == Cardinality({i \in 1..Len(s) : s[i].created_at >= x.created_at})
    IN  SubSeq(s, 1, k) \o <<x>> \o SubSeq(s, k + 1, Len(s))

RECURSIVE sort_by_created_desc(_)
sort_by_created_desc(s) ==
    IF s = <<>> THEN <<>>
    ELSE InsertDesc(sort_by_created_desc(SubSeq(s, 1, Len(s) - 1)), s[Len(s)])

\* The FileIndexResponse get_index computes; a folder without files has
\* no key in by_date (the empty list here).
FileIndexResponse(list, scan) ==
    [by_date |-> [d \in Folders |->
                    sort_by_created_desc(
                        SelectSeq(list, LAMBDA f : f.date_folder = d))],
     last_scan |-> scan]

\* Faulty variant: every entry of the path goes.
remove_all(list, path_str) == SelectSeq(list, LAMBDA f : f.path # path_str)

\* w.iter().position(|x| x.path == path_str), then w.remove(pos).
RECURSIVE remove_first(_, _)
remove_first(list, path_str) ==
    IF list = <<>> THEN <<>>
    ELSE IF Head(list).path = path_str THEN Tail(list)
    ELSE <<Head(list)>> \o remove_first(Tail(list), path_str)

\* files.iter().filter(|f| f.created_at > timestamp).count()
count_files_after(list, timestamp) ==
    Cardinality({i \in 1..Len(list) : list[i].created_at > timestamp})

\* Path::canonicalize in delete_files: the absolute path of p.
Cwd == <<"/", "srv", "tiak">>

canonicalize(p) == Cwd \o p

\* The walk of build_index over what is on the disk.
RECURSIVE Walk(_, _)
Walk(d, order) ==
    IF order = <<>> THEN <<>>
    ELSE IF d[Head(order)] # 0
         THEN <<FileItem(Head(order), d[Head(order)])>> \o Walk(d, Tail(order))
         ELSE Walk(d, Tail(order))

IdleOp ==
    [op |-> "idle", pc |-> "idle", path |-> <<>>, item |-> <<>>,
     list |-> <<>>, ts |-> 0, resp |-> <<>>, undone |-> FALSE, out |-> <<>>]

\* FileIndex::new, an empty data directory.
IndexStart ==
    /\ disk = [p \in Paths |-> 0]
    /\ now = 1
    /\ files = <<>>
    /\ last_scan = 0
    /\ cached_index = <<>>
    /\ ops = [t \in Threads |-> IdleOp]
    /\ added = {}
    /\ seen = {}

\* get_index holds files.read() until it returns: writers wait meanwhile.
FilesReadHeld == \E t \in Threads : ops[t].pc = "g_cache"

SetOp(t, o) == ops' = [ops EXCEPT ![t] = o]

\* yt-dlp (or anything else) creates a file under data/.
FileCreated(p) ==
    /\ disk[p] = 0
    /\ disk' = [disk EXCEPT ![p] = now]
    /\ UNCHANGED <<now, files, last_scan, cached_index, ops, added, seen,
                   queueVars, syncVars>>

ClockAdvance ==
    /\ now < MaxTime
    /\ now' = now + 1
    /\ UNCHANGED <<disk, files, last_scan, cached_index, ops, added, seen,
                   queueVars, syncVars>>

\* get_index, lines 108-113: the cached view if there is one.
GetIndexCheck(t) ==
    /\ ops[t].pc = "idle"
    /\ left > 0
    /\ left' = left - 1
    /\ IF cached_index # <<>>
       THEN seen' = seen \cup {cached_index[1]} /\ UNCHANGED ops
       ELSE SetOp(t, [IdleOp EXCEPT !.op = "get", !.pc = "g_read"])
            /\ UNCHANGED seen
    /\ UNCHANGED <<disk, now, files, last_scan, cached_index, added,
                   queueState, syncVars>>

\* get_index, lines 115-133: files.read() taken, the view computed.
GetIndexRead(t) ==
    /\ ops[t].pc = "g_read"
    /\ SetOp(t, [ops[t] EXCEPT !.pc = "g_cache",
                               !.resp = <<FileIndexResponse(files, last_scan)>>])
    /\ UNCHANGED <<disk, now, files, last_scan, cached_index, added, seen,
                   queueVars, syncVars>>

\* get_index, lines 135-140: the view cached and returned, the lock dropped.
GetIndexCache(t) ==
    /\ ops[t].pc = "g_cache"
    /\ cached_index' = ops[t].resp
    /\ seen' = seen \cup {ops[t].resp[1]}
    /\ SetOp(t, IdleOp)
    /\ UNCHANGED <<disk, now, files, last_scan, added, queueVars, syncVars>>

\* add_file, lines 144-162: nothing happens for a path that does not
\* exist; otherwise the item is made from the file's metadata.
AddFileStat(t, p) ==
    /\ ops[t].pc = "idle"
    /\ left > 0
    /\ left' = left - 1
    /\ disk[p] # 0
    /\ Len(files) + Cardinality({u \in Threads : ops[u].pc = "a_push"}) < MaxFiles
    /\ SetOp(t, [IdleOp EXCEPT !.op = "add", !.pc = "a_push", !.path = p,
                               !.item = <<FileItem(p, disk[p])>>])
    /\ UNCHANGED <<disk, now, files, last_scan, cached_index, added, seen,
                   queueState, syncVars>>

\* Faulty variant: the push does not wait for a reader to let go.
AddFilePushUnlocked(t) ==
    /\ ops[t].pc = "a_push"
    /\ files' = files \o ops[t].item
    /\ SetOp(t, [ops[t] EXCEPT !.pc = "a_cache"])
    /\ seen' = {}
    /\ unsynced' = IF unsynced >= 0 THEN unsynced + 1 ELSE unsynced
    /\ UNCHANGED <<disk, now, last_scan, cached_index, added, queueVars,
                   sync_state, marker, sync, sync_view>>

\* add_file, lines 164-167.
AddFilePush(t) ==
    /\ ops[t].pc = "a_push"
    /\ ~FilesReadHeld
    /\ files' = files \o ops[t].item
    /\ SetOp(t, [ops[t] EXCEPT !.pc = "a_cache"])
    /\ seen' = {}
    /\ unsynced' = IF unsynced >= 0 THEN unsynced + 1 ELSE unsynced
    /\ UNCHANGED <<disk, now, last_scan, cached_index, added, queueVars,
                   sync_state, marker, sync, sync_view>>

\* add_file, lines 169-172, and the return.
AddFileInvalidate(t) ==
    /\ ops[t].pc = "a_cache"
    /\ cached_index' = <<>>
    /\ added' = IF ops[t].undone THEN added ELSE added \cup {ops[t].path}
    /\ seen' = {}
    /\ SetOp(t, IdleOp)
    /\ UNCHANGED <<disk, now, files, last_scan, queueVars, syncVars>>

\* Local::now().format("%Y-%m-%d"): local midnight lies between the
\* instants 1 and 2 of the clock.
DayOf(ts) == IF ts <= 1 THEN "2024-05-01" ELSE "2024-05-02"

get_today_folder == <<DATA_ROOT, DayOf(now)>>

\* path.exists()
exists(path) == path \in Paths /\ disk[path] # 0

\* run_yt_dlp starts: the output template is under today's folder.
RunYtDlpStart(t) ==
    /\ ops[t].pc = "idle"
    /\ left > 0
    /\ left' = left - 1
    /\ Len(files) + Cardinality({u \in Threads : ops[u].op \in {"add", "download"}})
           < MaxFiles
    /\ SetOp(t, [IdleOp EXCEPT !.op = "download", !.pc = "d_run",
                               !.path = get_today_folder])
    /\ UNCHANGED <<disk, now, files, last_scan, cached_index, added, seen,
                   queueState, syncVars>>

\* yt-dlp has written its file under the folder of the template and exits
\* with code 0; run_yt_dlp returns the base name of the file.
RunYtDlpWrote(t, p) ==
    /\ ops[t].pc = "d_run"
    /\ SubSeq(p, 1, 2) = ops[t].path
    /\ disk' = [disk EXCEPT ![p] = IF disk[p] = 0 THEN now ELSE disk[p]]
    /\ SetOp(t, [ops[t] EXCEPT !.pc = "d_done", !.out = p])
    /\ UNCHANGED <<now, files, last_scan, cached_index, added, seen,
                   queueVars, syncVars>>

\* The completion handler, Ok(filename): the name joined to today's folder,
\* and add_file up to its metadata read; add_file returns at once for a
\* path that does not exist.
CompletionAddFile(t) ==
    /\ ops[t].pc = "d_done"
    /\ LET filename == ops[t].out[Len(ops[t].out)]
           full_path == get_today_folder \o <<filename>>
       IN  IF exists(full_path)
           THEN SetOp(t, [ops[t] EXCEPT !.pc = "a_push", !.path = full_path,
                             !.item = <<FileItem(full_path, disk[full_path])>>])
           ELSE SetOp(t, IdleOp)
    /\ UNCHANGED <<disk, now, files, last_scan, cached_index, added, seen,
                   queueVars, syncVars>>

\* delete_files, lines 108-123: the path made absolute, the file removed
\* from the disk.
DeleteFilesUnlink(t, p) ==
    /\ ops[t].pc = "idle"
    /\ left > 0
    /\ left' = left - 1
    /\ disk[p] # 0
    /\ disk' = [disk EXCEPT ![p] = 0]
    /\ added' = added \ {p}
    /\ ops' = [u \in Threads |->
                 IF u = t
                 THEN [IdleOp EXCEPT !.op = "delete", !.pc = "r_remove",
                                     !.path = canonicalize(p)]
                 ELSE IF ops[u].op = "add" /\ ops[u].path = p
                      THEN [ops[u] EXCEPT !.undone = TRUE]
                      ELSE ops[u]]
    /\ UNCHANGED <<now, files, last_scan, cached_index, seen, queueState,
                   syncVars>>

\* remove_file called with any path string, stored or not.
RemoveFileCall(t, path_str) ==
    /\ ops[t].pc = "idle"
    /\ left > 0
    /\ left' = left - 1
    /\ SetOp(t, [IdleOp EXCEPT !.op = "remove", !.pc = "r_remove",
                               !.path = path_str])
    /\ UNCHANGED <<disk, now, files, last_scan, cached_index, added, seen,
                   queueState, syncVars>>

\* remove_file, lines 177-182.  The call keeps note of whether an entry
\* was found.
RemoveFileRemove(t) ==
    /\ ops[t].pc = "r_remove"
    /\ ~FilesReadHeld
    /\ files' = remove_first(files, ops[t].path)
    /\ SetOp(t, [ops[t] EXCEPT !.pc = "r_cache",
                               !.undone = \E i \in 1..Len(files) :
                                             files[i].path = ops[t].path])
    /\ seen' = {}
    /\ UNCHANGED <<disk, now, last_scan, cached_index, added, queueVars,
                   syncVars>>

\* remove_file, lines 184-187, and the return.
RemoveFileInvalidate(t) ==
    /\ ops[t].pc = "r_cache"
    /\ cached_index' = <<>>
    /\ seen' = {}
    /\ SetOp(t, IdleOp)
    /\ UNCHANGED <<disk, now, files, last_scan, added, queueVars, syncVars>>

\* build_index, lines 47-89: the time stamp taken and the directory walked.
\* main runs one build at a time.
BuildIndexScan(t) ==
    /\ ops[t].pc = "idle"
    /\ left > 0
    /\ left' = left - 1
    /\ \A u \in Threads : ops[u].op # "build"
    /\ SetOp(t, [IdleOp EXCEPT !.op = "build", !.pc = "b_files",
                               !.list = Walk(disk, PathOrder), !.ts = now])
    /\ UNCHANGED <<disk, now, files, last_scan, cached_index, added, seen,
                   queueState, syncVars>>

\* build_index, lines 91-94.
BuildIndexSwap(t) ==
    /\ ops[t].pc = "b_files"
    /\ ~FilesReadHeld
    /\ files' = ops[t].list
    /\ SetOp(t, [ops[t] EXCEPT !.pc = "b_stamp"])
    /\ seen' = {}
    /\ UNCHANGED <<disk, now, last_scan, cached_index, added, queueVars,
                   syncVars>>

\* build_index, lines 95-98.
BuildIndexStamp(t) ==
    /\ ops[t].pc = "b_stamp"
    /\ last_scan' = ops[t].ts
    /\ SetOp(t, [ops[t] EXCEPT !.pc = "b_cache"])
    /\ seen' = {}
    /\ UNCHANGED <<disk, now, files, cached_index, added, queueVars, syncVars>>

\* build_index, lines 99-104.
BuildIndexInvalidate(t) ==
    /\ ops[t].pc = "b_cache"
    /\ cached_index' = <<>>
    /\ seen' = {}
    /\ SetOp(t, IdleOp)
    /\ UNCHANGED <<disk, now, files, last_scan, added, queueVars, syncVars>>

\* ------------------------------------------------------------------------
\* The sync manager (queue.rs, run_sync and get_sync_state).
\* ------------------------------------------------------------------------
MsgAlready == "Sync is already running"
MsgStarted == "Sync started"
MsgSyncExit == "Sync failed with exit code 1"
MsgWait == "Process error"

\* The entries of the log buffer: a line read from rclone is its number in
\* the order of appending (1, 2, ...); the lines the manager writes itself
\* are the numbers below.
LogStarting == 0
LogCompleted == 0 - 1
LogExit == 0 - 2
LogProcessError == 0 - 3

\* The length above which a log task drops the oldest entry before it
\* appends.
LogCap == 100

\* SyncState::default(); last_run 0 is None.  History: appended counts the
\* lines the log tasks have appended.
SyncStateDefault ==
    [status |-> "idle", last_run |-> 0, error |-> Null, unsynced_count |-> 0,
     logs |-> <<>>, appended |-> 0]

IdleSync == [pc |-> "idle", answer |-> ""]

SyncStart ==
    /\ sync_state = SyncStateDefault
    /\ marker = 0
    /\ sync = [t \in Threads |-> IdleSync]
    /\ unsynced = -1
    /\ sync_view = <<>>

\* The rclone processes that exist.
Rclones == {t \in Threads : sync[t].pc = "child"}

\* run_sync, lines 187-192: the status read under the read lock.
RunSyncCheck(t) ==
    /\ sync[t].pc = "idle"
    /\ sync' = [sync EXCEPT ![t] =
                  IF sync_state.status = "running"
                  THEN [pc |-> "idle", answer |-> MsgAlready]
                  ELSE [pc |-> "set", answer |-> ""]]
    /\ UNCHANGED <<sync_state, marker, unsynced, sync_view, queueVars,
                   indexVars>>

\* run_sync, lines 199-287: the status set under the write lock, the task
\* spawned, the call answered.
RunSyncSet(t) ==
    /\ sync[t].pc = "set"
    /\ sync_state' = [sync_state EXCEPT !.status = "running", !.error = Null,
                                        !.logs = <<LogStarting>>]
    /\ sync' = [sync EXCEPT ![t] = [pc |-> "task", answer |-> MsgStarted]]
    /\ UNCHANGED <<marker, unsynced, sync_view, queueVars, indexVars>>

\* The spawned task, lines 212-226: rclone started.
RcloneSpawned(t) ==
    /\ sync[t].pc = "task"
    /\ sync' = [sync EXCEPT ![t].pc = "child"]
    /\ UNCHANGED <<sync_state, marker, unsynced, sync_view, queueVars,
                   indexVars>>

\* Lines 225-226: spawn() fails and expect() panics; the task is gone and
\* nothing was written.
RcloneSpawnFails(t) ==
    /\ sync[t].pc = "task"
    /\ sync' = [sync EXCEPT ![t].pc = "idle"]
    /\ UNCHANGED <<sync_state, marker, unsynced, sync_view, queueVars,
                   indexVars>>

\* Faulty variant: a log task appends without dropping anything.
LogLineUncapped(t) ==
    /\ sync[t].pc = "child"
    /\ sync_state.appended < MaxLines
    /\ sync_state' = [sync_state EXCEPT
                         !.logs = Append(@, sync_state.appended + 1),
                         !.appended = @ + 1]
    /\ UNCHANGED <<sync, marker, unsynced, sync_view, queueVars, indexVars>>

\* One iteration of the stderr task or of the stdout task, lines 234-238
\* and 244-248, under the write lock: the oldest entry dropped if the buffer is long, the line appended.
LogLine(t) ==
    /\ sync[t].pc = "child"
    /\ sync_state.appended < MaxLines
    /\ LET kept == IF Len(sync_state.logs) > LogCap
                   THEN Tail(sync_state.logs) ELSE sync_state.logs
       IN  sync_state' = [sync_state EXCEPT
                            !.logs = Append(kept, sync_state.appended + 1),
                            !.appended = @ + 1]
    /\ UNCHANGED <<sync, marker, unsynced, sync_view, queueVars, indexVars>>

\* Lines 252-268: exit code 0; the marker file is created.  What is written
\* to the disk afterwards bears a later time.
RcloneExitedOk(t) ==
    /\ sync[t].pc = "child"
    /\ now < MaxTime
    /\ now' = now + 1
    /\ sync_state' = [sync_state EXCEPT !.status = "idle",
                                        !.logs = Append(@, LogCompleted),
                                        !.unsynced_count = 0,
                                        !.last_run = now]
    /\ marker' = now
    /\ unsynced' = 0
    /\ sync' = [sync EXCEPT ![t].pc = "idle"]
    /\ UNCHANGED <<sync_view, queueVars, disk, files, last_scan, cached_index,
                   ops, added, seen>>

\* Lines 269-276: another exit code.
RcloneExitedFailed(t) ==
    /\ sync[t].pc = "child"
    /\ sync_state' = [sync_state EXCEPT !.status = "error",
                                        !.error = MsgSyncExit,
                                        !.logs = Append(@, LogExit)]
    /\ sync' = [sync EXCEPT ![t].pc = "idle"]
    /\ UNCHANGED <<marker, unsynced, sync_view, queueVars, indexVars>>

\* Lines 278-283: child.wait() fails.
RcloneWaitFailed(t) ==
    /\ sync[t].pc = "child"
    /\ sync_state' = [sync_state EXCEPT !.status = "error", !.error = MsgWait,
                                        !.logs = Append(@, LogProcessError)]
    /\ sync' = [sync EXCEPT ![t].pc = "idle"]
    /\ UNCHANGED <<marker, unsynced, sync_view, queueVars, indexVars>>

\* get_sync_state: the stored state with unsynced_count and last_run
\* taken from the marker file and the file index.
get_sync_state ==
    IF marker # 0
    THEN [sync_state EXCEPT !.unsynced_count = count_files_after(files, marker),
                            !.last_run = marker]
    ELSE [sync_state EXCEPT !.unsynced_count = count_files_after(files, 0)]

\* The sync status request; the history keeps the count it answered and
\* the pushes counted so far.
GetSyncState ==
    /\ sync_view' = <<[unsynced_count |-> get_sync_state.unsynced_count,
                       pushes |-> unsynced]>>
    /\ UNCHANGED <<sync_state, marker, sync, unsynced, queueVars, indexVars>>

\* ------------------------------------------------------------------------
\* Initial state: a fresh store, DownloadQueue::new has returned and main
\* is about to call load_initial_state.
\* ------------------------------------------------------------------------
\* The stdout task as spawned: no file name found, the last progress
\* update stamped now, no line read.  It writes to job id while alive.
\* History: named is the path the last line read that names a file names;
\* fresh says that the task persisted an update less than a second ago.
TaskStart ==
    [found |-> <<>>, elapsed |-> FALSE, read |-> 0, id |-> 0, alive |-> FALSE,
     named |-> <<>>, fresh |-> FALSE]

SchedStart == [pc |-> "start", max |-> 0, held |-> NoHeld, tok |-> 0]
NoCall == [pc |-> "idle", id |-> 0, del |-> FALSE]

Start(budget) ==
    /\ store = [id \in JobIds |-> NoRow]
    /\ queue = <<>>
    /\ active = [id \in JobIds |-> 0]
    /\ maxc = DefaultMaxConcurrent
    /\ permit = FALSE
    /\ sched = SchedStart
    /\ runners = {}
    /\ call = NoCall
    /\ main = "reset"
    /\ nextId = 1
    /\ left = budget
    /\ stale = {}
    /\ cq = {}
    /\ cd = {}
    /\ loaded = <<>>
    /\ task = TaskStart
    /\ IndexStart
    /\ SyncStart

Init == Start(MaxCalls)

\* One more request than Init allows.
InitWide == Start(MaxCalls + 1)

\* ------------------------------------------------------------------------
\* Startup (main.rs) and DownloadQueue::load_initial_state
\* ------------------------------------------------------------------------
ActiveCount == Cardinality({id \in JobIds : active[id] # 0})

LoadResetCrashed ==
    /\ main = "reset"
    /\ store' = reset_crashed_jobs(store)
    /\ main' = "load"
    /\ stale' = {id \in stale :
                    ~(store'[id].status = "failed" /\ store'[id].error = "crashed")}
    /\ UNCHANGED <<queue, active, maxc, permit, sched, runners, call, nextId,
                   left, cq, cd, loaded, task,
                   indexVars, syncVars>>

LoadQueuedJobs ==
    /\ main = "load"
    /\ queue' = PushAll(queue, get_queued_jobs(store), sched.held)
    /\ loaded' = SelectSeq(get_queued_jobs(store), LAMBDA id : ~contains(queue, id))
    /\ permit' = TRUE
    /\ main' = "serving"
    /\ UNCHANGED <<store, active, maxc, sched, runners, call, nextId, left,
                   stale, cq, cd, task,
                   indexVars, syncVars>>

\* The process dies and is started again: the store survives, everything
\* held in memory (and every child process) is gone.
Restart ==
    /\ left > 0
    /\ left' = left - 1
    /\ queue' = <<>>
    /\ active' = [id \in JobIds |-> 0]
    /\ maxc' = DefaultMaxConcurrent
    /\ permit' = FALSE
    /\ sched' = SchedStart
    /\ runners' = {}
    /\ call' = NoCall
    /\ main' = "reset"
    /\ stale' = {id \in JobIds : store[id].status = "downloading"}
    /\ cd' = {}
    /\ loaded' = <<>>
    /\ UNCHANGED <<store, nextId, cq, task,
                   indexVars, syncVars>>

\* ------------------------------------------------------------------------
\* Client operations of DownloadQueue
\* ------------------------------------------------------------------------
Serving == main = "serving" /\ left > 0

\* Faulty variant: add_job returns without notify_one.
AddJobUnsignalled ==
    /\ Serving
    /\ left' = left - 1
    /\ store' = add_job(store, nextId)
    /\ queue' = push_back(queue, nextId, sched.held)
    /\ nextId' = nextId + 1
    /\ UNCHANGED <<active, maxc, permit, sched, runners, call, main, stale,
                   cq, cd, loaded, task, indexVars, syncVars>>

AddJob ==
    /\ Serving
    /\ left' = left - 1
    /\ store' = add_job(store, nextId)
    /\ queue' = push_back(queue, nextId, sched.held)
    /\ permit' = TRUE
    /\ nextId' = nextId + 1
    /\ UNCHANGED <<active, maxc, sched, runners, call, main, stale, cq, cd,
                   loaded, task,
                   indexVars, syncVars>>

\* Faulty variant: the id is pushed and the scheduler signalled without
\* looking the job up.
RequeueUnchecked(id, s2) ==
    /\ Serving
    /\ left' = left - 1
    /\ store' = IF check_job_exists(store, id) THEN s2 ELSE store
    /\ queue' = push_back(queue, id, sched.held)
    /\ permit' = TRUE
    /\ cq' = cq \ {id}
    /\ cd' = cd \ {id}
    /\ UNCHANGED <<active, maxc, sched, runners, call, main, nextId, stale,
                   loaded, task,
                   indexVars, syncVars>>

Requeue(id, s2) ==
    /\ Serving
    /\ left' = left - 1
    /\ IF check_job_exists(store, id)
       THEN /\ store' = s2
            /\ queue' = push_back(queue, id, sched.held)
            /\ permit' = TRUE
            /\ cq' = cq \ {id}
            /\ cd' = cd \ {id}
       ELSE UNCHANGED <<store, queue, permit, cq, cd,
                   indexVars, syncVars>>
    /\ UNCHANGED <<active, maxc, sched, runners, call, main, nextId, stale,
                   loaded, task,
                   indexVars, syncVars>>

RetryJob(id) == Requeue(id, increment_retry(store, id))

RedownloadJob(id) == Requeue(id, redownload_job(store, id))

\* Faulty variant: 0 is taken as a ceiling too.
SetMaxConcurrentAny(limit) ==
    /\ Serving
    /\ left' = left - 1
    /\ maxc' = limit
    /\ permit' = TRUE
    /\ UNCHANGED <<store, queue, active, sched, runners, call, main, nextId,
                   stale, cq, cd, loaded, task,
                   indexVars, syncVars>>

SetMaxConcurrent(limit) ==
    /\ Serving
    /\ left' = left - 1
    /\ IF limit > 0
       THEN /\ maxc' = limit
            /\ permit' = TRUE
       ELSE UNCHANGED <<maxc, permit,
                   indexVars, syncVars>>
    /\ UNCHANGED <<store, queue, active, sched, runners, call, main, nextId,
                   stale, cq, cd, loaded, task,
                   indexVars, syncVars>>

\* cancel_job, first half: the look-up in the active registry.
CancelToken(rs, id, tok) ==
    {IF r.id = id /\ r.tok = tok THEN [r EXCEPT !.cancelled = TRUE] ELSE r :
        r \in rs}

CancelLookup(id, del) ==
    /\ Serving
    /\ call.pc = "idle"
    /\ left' = left - 1
    /\ cq' = IF ~del /\ store[id].status = "queued"
             THEN cq \cup {id} ELSE cq
    /\ cd' = IF ~del /\ store[id].status = "downloading" THEN cd \cup {id} ELSE cd
    /\ IF active[id] # 0
       THEN /\ runners' = CancelToken(runners, id, active[id])
            /\ call' = IF del THEN [pc |-> "delete", id |-> id, del |-> del]
                       ELSE NoCall
       ELSE /\ runners' = runners
            /\ call' = [pc |-> "queue", id |-> id, del |-> del]
    /\ UNCHANGED <<store, queue, active, maxc, permit, sched, main, nextId,
                   stale, loaded, task,
                   indexVars, syncVars>>

CancelJob(id) == CancelLookup(id, FALSE)

DeleteJobRoute(id) == CancelLookup(id, TRUE)

\* cancel_job, second half: the removal from the pending queue.
CancelDequeue ==
    /\ call.pc = "queue"
    /\ LET q2 == IF contains(queue, call.id)
                 THEN remove(queue, position(queue, call.id))
                 ELSE queue
           live == Tickets(q2, sched.held)
       IN  /\ queue' = Renumber(q2, live)
           /\ sched' = [sched EXCEPT !.held = RenumberHeld(sched.held, live)]
    /\ call' = IF call.del THEN [call EXCEPT !.pc = "delete"] ELSE NoCall
    /\ UNCHANGED <<store, active, maxc, permit, runners, main, nextId, left,
                   stale, cq, cd, loaded, task,
                   indexVars, syncVars>>

\* delete_job route, after cancel_job: check_job_exists, then delete_job.
DeleteRow ==
    /\ call.pc = "delete"
    /\ store' = IF check_job_exists(store, call.id)
                THEN delete_job(store, call.id) ELSE store
    /\ call' = NoCall
    /\ cd' = cd \ {call.id}
    /\ UNCHANGED <<queue, active, maxc, permit, sched, runners, main, nextId,
                   left, stale, cq, loaded, task,
                   indexVars, syncVars>>

\* import_queue route: one job of the uploaded export whose id is not in
\* the store.
ImportPayloads ==
    { Job("done", 100, NoEta, "video.mp4", 0, Null, TRUE, TRUE),
      Job("failed", 0, NoEta, Null, 1, MsgExit, TRUE, TRUE) }

ImportJob(id, job) ==
    /\ Serving
    /\ left' = left - 1
    /\ id <= nextId
    /\ ~check_job_exists(store, id)
    /\ store' = import_job(store, id, job)
    /\ nextId' = IF id = nextId THEN nextId + 1 ELSE nextId
    /\ UNCHANGED <<queue, active, maxc, permit, sched, runners, call, main,
                   stale, cq, cd, loaded, task,
                   indexVars, syncVars>>

\* ------------------------------------------------------------------------
\* Maintenance (cleanup.rs)
\* ------------------------------------------------------------------------
RunCleanup(id) ==
    /\ main = "serving"
    /\ store[id].status = "failed"
    /\ store' = delete_job(store, id)
    /\ cd' = cd \ {id}
    /\ UNCHANGED <<queue, active, maxc, permit, sched, runners, call, main,
                   nextId, left, stale, cq, loaded, task,
                   indexVars, syncVars>>

ScanForMissingFiles(id) ==
    /\ main = "serving"
    /\ store[id].status \in {"done", "imported"}
    /\ store[id].filename # Null
    /\ store' = mark_missing(store, id)
    /\ UNCHANGED <<queue, active, maxc, permit, sched, runners, call, main,
                   nextId, left, stale, cq, cd, loaded, task,
                   indexVars, syncVars>>

\* ------------------------------------------------------------------------
\* The scheduler task: loop { process_next; notified }
\* ------------------------------------------------------------------------
Release(q) == Renumber(q, Tickets(q, NoHeld))

FreshToken(id) ==
    CHOOSE t \in 1..(Cardinality(runners) + 1) :
        /\ ~\E r \in runners : r.id = id /\ r.tok = t
        /\ \A u \in 1..(t - 1) : \E r \in runners : r.id = id /\ r.tok = u

ProcessNextReadMax ==
    /\ sched.pc = "start"
    /\ sched' = [sched EXCEPT !.pc = "loop", !.max = maxc]
    /\ UNCHANGED <<store, queue, active, maxc, permit, runners, call, main,
                   nextId, left, stale, cq, cd, loaded, task,
                   indexVars, syncVars>>

\* Faulty variant: the pass pops without looking at the active count.
ProcessNextPopUnbounded ==
    /\ sched.pc = "loop"
    /\ IF queue = <<>>
       THEN /\ sched' = [sched EXCEPT !.pc = "wait"]
            /\ queue' = queue
       ELSE /\ sched' = [sched EXCEPT !.pc = "get", !.held = front(queue)]
            /\ queue' = pop_front(queue)
    /\ UNCHANGED <<store, active, maxc, permit, runners, call, main, nextId,
                   left, stale, cq, cd, loaded, task,
                   indexVars, syncVars>>

ProcessNextPop ==
    /\ sched.pc = "loop"
    /\ IF ActiveCount >= sched.max \/ queue = <<>>
       THEN /\ sched' = [sched EXCEPT !.pc = "wait"]
            /\ queue' = queue
       ELSE /\ sched' = [sched EXCEPT !.pc = "get", !.held = front(queue)]
            /\ queue' = pop_front(queue)
    /\ UNCHANGED <<store, active, maxc, permit, runners, call, main, nextId,
                   left, stale, cq, cd, loaded, task,
                   indexVars, syncVars>>

\* Faulty variant: the status of the popped job is not looked at.
ProcessNextGetAnyStatus ==
    /\ sched.pc = "get"
    /\ LET id == sched.held.id
           tok == FreshToken(id)
       IN  /\ active' = [active EXCEPT ![id] = tok]
           /\ runners' = runners \cup
                  {[id |-> id, tok |-> tok, pc |-> "new", cancelled |-> FALSE]}
           /\ sched' = [sched EXCEPT !.pc = "mark", !.tok = tok]
           /\ queue' = queue
    /\ UNCHANGED <<store, maxc, permit, call, main, nextId, left, stale, cq,
                   cd, loaded, task,
                   indexVars, syncVars>>

\* get_job on the popped id and, for a queued job, the first statement of
\* start_download_task: the insertion of a new token in the registry.
ProcessNextGet ==
    /\ sched.pc = "get"
    /\ LET id == sched.held.id
           job == get_job(store, id)
           tok == FreshToken(id)
       IN  IF job.status = "queued"
           THEN /\ active' = [active EXCEPT ![id] = tok]
                /\ runners' = runners \cup
                       {[id |-> id, tok |-> tok, pc |-> "new", cancelled |-> FALSE]}
                /\ sched' = [sched EXCEPT !.pc = "mark", !.tok = tok]
                /\ queue' = queue
           ELSE /\ sched' = [sched EXCEPT !.pc = "loop", !.held = NoHeld]
                /\ queue' = Release(queue)
                /\ UNCHANGED <<active, runners,
                   indexVars, syncVars>>
    /\ UNCHANGED <<store, maxc, permit, call, main, nextId, left, stale, cq,
                   cd, loaded, task,
                   indexVars, syncVars>>

\* start_download_task, rest: mark_downloading, then the task is spawned
\* and runs up to the select of run_yt_dlp.
StartDownloadTask ==
    /\ sched.pc = "mark"
    /\ LET id == sched.held.id
       IN  /\ store' = mark_downloading(store, id)
           /\ runners' = {IF r.id = id /\ r.tok = sched.tok
                          THEN [r EXCEPT !.pc = "select"] ELSE r : r \in runners}
    /\ sched' = [sched EXCEPT !.pc = "loop", !.held = NoHeld, !.tok = 0]
    /\ queue' = Release(queue)
    /\ UNCHANGED <<active, maxc, permit, call, main, nextId, left, stale, cq,
                   cd, loaded, task,
                   indexVars, syncVars>>

Notified ==
    /\ sched.pc = "wait"
    /\ permit
    /\ permit' = FALSE
    /\ sched' = [sched EXCEPT !.pc = "start"]
    /\ UNCHANGED <<store, queue, active, maxc, runners, call, main, nextId,
                   left, stale, cq, cd, loaded, task,
                   indexVars, syncVars>>

\* ------------------------------------------------------------------------
\* A download task: run_yt_dlp, then the completion handler
\* ------------------------------------------------------------------------
\* History: the cancelled jobs that have not yet been seen failed with
\* "Cancelled" and out of the registry.
CancelSettled(s, a, id) ==
    s[id].status = "failed" /\ s[id].error = "Cancelled" /\ a[id] = 0

Owed(S, s, a) == {id \in S : ~CancelSettled(s, a, id)}

\* Faulty variant: every error of run_yt_dlp is taken for a cancellation.
IsCancelledMsgAny(msg) == TRUE

\* msg.contains("cancelled"): of the messages run_yt_dlp returns, only
\* "Job cancelled" has the substring.
IsCancelledMsg(msg) == msg = MsgCancelled

\* The store write of the completion handler for the result of run_yt_dlp.
CompletionWrite(s, id, ok, res) ==
    IF ok THEN mark_done(s, id, res)
    ELSE IF IsCancelledMsg(res)
         THEN (IF check_job_exists(s, id) THEN mark_failed(s, id, "Cancelled") ELSE s)
         ELSE mark_failed(s, id, res)

\* run_yt_dlp returns and the completion handler writes the outcome.
CompletedWrite(r, ok, res) ==
    /\ r.pc = "select"
    /\ store' = CompletionWrite(store, r.id, ok, res)
    /\ runners' = (runners \ {r}) \cup {[r EXCEPT !.pc = "rm"]}
    /\ cd' = Owed(cd, store', active)
    /\ UNCHANGED <<queue, active, maxc, permit, sched, call, main, nextId,
                   left, stale, cq, loaded,
                   indexVars, syncVars>>

Completed(r, ok, res) == CompletedWrite(r, ok, res) /\ UNCHANGED task

\* Command::spawn fails: run_yt_dlp returns the error.
RunYtDlpSpawnFailed(r) == Completed(r, FALSE, MsgSpawn)

\* Faulty variant: the select never takes the cancellation branch.
RunYtDlpIgnoresCancel(r) == r.pc = "never" /\ Completed(r, FALSE, MsgCancelled)

\* select!, branch token.cancelled(): kill the child, return "Job cancelled".
RunYtDlpCancelled(r) == r.cancelled /\ Completed(r, FALSE, MsgCancelled)

\* select!, branch child.wait(): the process has exited, with success and
\* a resolved file name or with a non-zero code.
RunYtDlpExitedOk(r, filename) == Completed(r, TRUE, filename)

RunYtDlpExitedFailed(r) == Completed(r, FALSE, MsgExit)

\* The store is failing: check_job_exists, mark_done or mark_failed returns
\* an error, which the completion handler drops.
CompletionWriteFails(r) ==
    /\ r.pc = "select"
    /\ runners' = (runners \ {r}) \cup {[r EXCEPT !.pc = "rm"]}
    /\ UNCHANGED <<store, queue, active, maxc, permit, sched, call, main,
                   nextId, left, stale, cq, cd, loaded, task,
                   indexVars, syncVars>>

\* Faulty variant: the task ends without removing its registry entry.
CompletionRemoveKeepsEntry(r) ==
    /\ r.pc = "rm"
    /\ permit' = TRUE
    /\ runners' = runners \ {r}
    /\ UNCHANGED <<store, queue, active, maxc, sched, call, main, nextId,
                   left, stale, cq, cd, loaded, task,
                   indexVars, syncVars>>

\* The end of the task: active_jobs.remove and notify_one.
CompletionRemove(r) ==
    /\ r.pc = "rm"
    /\ active' = [active EXCEPT ![r.id] = 0]
    /\ permit' = TRUE
    /\ runners' = runners \ {r}
    /\ cd' = Owed(cd, store, active')
    /\ UNCHANGED <<store, queue, maxc, sched, call, main, nextId, left,
                   stale, cq, loaded, task,
                   indexVars, syncVars>>

\* ------------------------------------------------------------------------
\* The stdout task of run_yt_dlp.  A line is given by what the five regular
\* expressions capture in it: the percentage in tenths (NoPct: re_progress
\* does not match), the ETA as its colon-separated numbers, and the path
\* captured by re_dest, re_merge and re_already (<<>>: no match).  The
\* lines that name a file are given by their text, a sequence of words, and
\* the three expressions are computed on it; a path is one word, written as
\* the sequence of its components.
\* ------------------------------------------------------------------------
NoPct == 0 - 1
PctTenths == {0, 255, 1000}
\* The token after ETA in a line, as its colon-separated fields of two
\* digits (<<>>: the line has none).
EtaTexts == {<<>>, <<5>>, <<0, 5>>, <<1, 0, 5>>}
FoundPaths == {<<"downloads", "video.f1.mp4">>, <<"downloads", "video.mp4">>}

W(word) == <<word>>

\* The lines of the tool that name a file: the destination of a download,
\* the target of a merge, a file that is already there; and a line of the
\* form re_already is written for.
DestinationText(f) == <<W("[download]"), W("Destination:"), f>>

MergerText(f) == <<W("[Merger]"), W("Merging"), W("formats"), W("into"), f>>

AlreadyText(f) ==
    <<W("[download]"), f, W("has"), W("already"), W("been"), W("downloaded")>>

DownloadedText(f) ==
    <<W("Downloaded"), f, W("has"), W("already"), W("been"), W("downloaded")>>

TextsOf(f) ==
    {DestinationText(f), MergerText(f), AlreadyText(f), DownloadedText(f)}

Texts == UNION {TextsOf(f) : f \in FoundPaths}

\* History: the path a line of Texts names.
Named(text) == CHOOSE f \in FoundPaths : text \in TextsOf(f)

Min(S) == CHOOSE i \in S : \A j \in S : i <= j
Max(S) == CHOOSE i \in S : \A j \in S : j <= i

\* \b[dD]estination:\s+(.*) : the rest of the line after the word.
re_dest(text) ==
    LET I == {i \in 1..(Len(text) - 1) :
                 text[i] \in {W("Destination:"), W("destination:")}}
    IN  IF I = {} THEN <<>> ELSE text[Min(I) + 1]

\* \b[mM]erger\b.*into\s+"?([^"]*)"? : what follows the last `into` after
\* the word Merger.
re_merge(text) ==
    LET I == {i \in 1..Len(text) : text[i] \in {W("[Merger]"), W("[merger]")}}
        J == {j \in 1..(Len(text) - 1) :
                 text[j] = W("into") /\ \E i \in I : i < j}
    IN  IF J = {} THEN <<>> ELSE text[Max(J) + 1]

\* \b[dD]ownloaded\s+(.*)\s+has already been downloaded : what stands
\* between the word downloaded and the closing words.
re_already(text) ==
    LET n == Len(text)
        I == {i \in 1..(n - 5) :
                 /\ text[i] \in {W("downloaded"), W("Downloaded")}
                 /\ SubSeq(text, i + 2, i + 5) =
                        <<W("has"), W("already"), W("been"), W("downloaded")>>}
    IN  IF I = {} THEN <<>> ELSE text[Min(I) + 1]

\* ETA\s+(\d{2}:\d{2}(?:\:\d{2})?) : two or three fields.
re_eta(token) == IF Len(token) \in {2, 3} THEN token ELSE <<>>

Line(pct, eta, dest, merge, already) ==
    [pct |-> pct, eta |-> eta, dest |-> dest, merge |-> merge,
     already |-> already, text |-> <<>>, token |-> <<>>]

TextLine(text) ==
    [pct |-> NoPct, eta |-> <<>>, dest |-> re_dest(text),
     merge |-> re_merge(text), already |-> re_already(text), text |-> text,
     token |-> <<>>]

\* A progress line with its percentage and its ETA token.
ProgressLine(pct, token) ==
    [pct |-> pct, eta |-> re_eta(token), dest |-> <<>>, merge |-> <<>>,
     already |-> <<>>, text |-> <<>>, token |-> token]

Lines ==
    {ProgressLine(p, e) : p \in PctTenths, e \in EtaTexts}
    \cup {TextLine(text) : text \in Texts}
    \cup {Line(NoPct, <<>>, <<>>, <<>>, <<>>)}

parse_eta(parts) ==
    IF Len(parts) = 3 THEN parts[1] * 3600 + parts[2] * 60 + parts[3]
    ELSE IF Len(parts) = 2 THEN parts[1] * 60 + parts[2]
    ELSE parts[1]

\* m.as_str().parse::<f64>() followed by `p as i64`: the fraction is cut.
ProgressWritten(pct) == pct \div 10

EtaWritten(eta) == IF eta # <<>> THEN parse_eta(eta) ELSE NoEta

\* Path::file_name of the found name, or the fallback name.
file_name(path) == path[Len(path)]

ResolveName(found) ==
    IF found # <<>> THEN file_name(found) ELSE "unknown.mp4"

\* Faulty variant: every percentage read is persisted.
StdoutLineUnlimited(line) ==
    /\ task.alive
    /\ task.read < MaxRead
    /\ LET write == line.pct # NoPct
           s1 == IF write
                 THEN update_progress(store, task.id,
                                      ProgressWritten(line.pct),
                                      EtaWritten(line.eta))
                 ELSE store
           f1 == IF line.dest # <<>> THEN line.dest ELSE task.found
           f2 == IF line.merge # <<>> THEN line.merge ELSE f1
           f3 == IF line.already # <<>> THEN line.already ELSE f2
           s2 == IF line.already # <<>>
                 THEN update_progress(s1, task.id, 100, 0)
                 ELSE s1
       IN  /\ store' = s2
           /\ task' = [task EXCEPT
                         !.found = f3,
                         !.named = IF line.text # <<>> THEN Named(line.text)
                                   ELSE task.named,
                         !.elapsed = IF write THEN FALSE ELSE task.elapsed,
                         !.fresh = IF write \/ line.already # <<>> THEN TRUE
                                   ELSE task.fresh,
                         !.read = task.read + 1]
    /\ UNCHANGED <<queue, active, maxc, permit, sched, runners, call, main,
                   nextId, left, stale, cq, cd, loaded,
                   indexVars, syncVars>>

\* One iteration of the read loop on the line just read.  The task reads
\* on until the end of the stream, whatever has become of the job.
StdoutLine(line) ==
    /\ task.alive
    /\ task.read < MaxRead
    /\ LET write == line.pct # NoPct /\ task.elapsed
           s1 == IF write
                 THEN update_progress(store, task.id,
                                      ProgressWritten(line.pct),
                                      EtaWritten(line.eta))
                 ELSE store
           f1 == IF line.dest # <<>> THEN line.dest ELSE task.found
           f2 == IF line.merge # <<>> THEN line.merge ELSE f1
           f3 == IF line.already # <<>> THEN line.already ELSE f2
           s2 == IF line.already # <<>>
                 THEN update_progress(s1, task.id, 100, 0)
                 ELSE s1
       IN  /\ store' = s2
           /\ task' = [task EXCEPT
                         !.found = f3,
                         !.named = IF line.text # <<>> THEN Named(line.text)
                                   ELSE task.named,
                         !.elapsed = IF write THEN FALSE ELSE task.elapsed,
                         !.fresh = IF write \/ line.already # <<>> THEN TRUE
                                   ELSE task.fresh,
                         !.read = task.read + 1]
    /\ UNCHANGED <<queue, active, maxc, permit, sched, runners, call, main,
                   nextId, left, stale, cq, cd, loaded,
                   indexVars, syncVars>>

\* A second has gone by since last_progress_update.
Tick ==
    /\ task.alive
    /\ ~task.elapsed \/ task.fresh
    /\ task' = [task EXCEPT !.elapsed = TRUE, !.fresh = FALSE]
    /\ UNCHANGED <<store, queue, active, maxc, permit, sched, runners, call,
                   main, nextId, left, stale, cq, cd, loaded,
                   indexVars, syncVars>>

\* The child has been killed and the task reaches the end of the stream.
StdoutEof ==
    /\ task.alive
    /\ ~\E r \in runners : r.id = task.id /\ r.pc = "select"
    /\ task' = [task EXCEPT !.alive = FALSE]
    /\ UNCHANGED <<store, queue, active, maxc, permit, sched, runners, call,
                   main, nextId, left, stale, cq, cd, loaded,
                   indexVars, syncVars>>

\* select!, branch child.wait(): the stdout task is awaited, so it has read
\* the stream to its end, before the outcome is returned.
Joined == task' = [task EXCEPT !.alive = FALSE]

\* Faulty variant: a success without a file name is returned as an error.
RunYtDlpFailsUnnamed(r) ==
    /\ r.id = task.id
    /\ IF task.found = <<>>
       THEN CompletedWrite(r, FALSE, MsgExit)
       ELSE CompletedWrite(r, TRUE, file_name(task.found))
    /\ task' = [task EXCEPT !.alive = FALSE]

\* With success: the name the task found is resolved.
RunYtDlpExitedOkFound(r) ==
    /\ r.id = task.id
    /\ CompletedWrite(r, TRUE, ResolveName(task.found))
    /\ Joined

RunYtDlpExitedFailedJoined(r) ==
    /\ r.id = task.id
    /\ CompletedWrite(r, FALSE, MsgExit)
    /\ Joined

\* select!, branch token.cancelled(): the stdout task is not awaited.
RunYtDlpCancelledUnjoined(r) ==
    /\ r.id = task.id
    /\ r.cancelled
    /\ CompletedWrite(r, FALSE, MsgCancelled)
    /\ UNCHANGED task

\* One job has been added and dispatched; its runner is at the select and
\* its stdout task has just been spawned.
InitRunner ==
    /\ store = mark_downloading(add_job([id \in JobIds |-> NoRow], 1), 1)
    /\ queue = <<>>
    /\ active = [id \in JobIds |-> IF id = 1 THEN 1 ELSE 0]
    /\ maxc = DefaultMaxConcurrent
    /\ permit = FALSE
    /\ sched = [SchedStart EXCEPT !.pc = "loop", !.max = DefaultMaxConcurrent]
    /\ runners = {[id |-> 1, tok |-> 1, pc |-> "select", cancelled |-> FALSE]}
    /\ call = NoCall
    /\ main = "serving"
    /\ nextId = 2
    /\ left = MaxCalls - 1
    /\ stale = {}
    /\ cq = {}
    /\ cd = {}
    /\ loaded = <<>>
    /\ task = [TaskStart EXCEPT !.id = 1, !.alive = TRUE]
    /\ IndexStart
    /\ SyncStart

NextRunner ==
    \/ \E line \in Lines : StdoutLine(line)
    \/ Tick
    \/ StdoutEof
    \/ \E r \in runners : RunYtDlpExitedOkFound(r)
    \/ \E r \in runners : RunYtDlpExitedFailedJoined(r)
    \/ \E r \in runners : RunYtDlpCancelledUnjoined(r)
    \/ \E r \in runners : CompletionRemove(r)
    \/ RetryJob(task.id)
    \/ CancelJob(task.id)
    \/ CancelDequeue

\* ------------------------------------------------------------------------
\* Specification
\* ------------------------------------------------------------------------
Next ==
    \/ LoadResetCrashed
    \/ LoadQueuedJobs
    \/ Restart
    \/ AddJob
    \/ \E id \in JobIds : RetryJob(id)
    \/ \E id \in JobIds : RedownloadJob(id)
    \/ \E limit \in Limits : SetMaxConcurrent(limit)
    \/ \E id \in JobIds : CancelJob(id)
    \/ \E id \in JobIds : DeleteJobRoute(id)
    \/ CancelDequeue
    \/ DeleteRow
    \/ \E id \in JobIds, job \in ImportPayloads : ImportJob(id, job)
    \/ \E id \in JobIds : RunCleanup(id)
    \/ \E id \in JobIds : ScanForMissingFiles(id)
    \/ ProcessNextReadMax
    \/ ProcessNextPop
    \/ ProcessNextGet
    \/ StartDownloadTask
    \/ Notified
    \/ \E r \in runners : RunYtDlpSpawnFailed(r)
    \/ \E r \in runners : RunYtDlpCancelled(r)
    \/ \E r \in runners, filename \in ResolvedNames : RunYtDlpExitedOk(r, filename)
    \/ \E r \in runners : RunYtDlpExitedFailed(r)
    \/ \E r \in runners : CompletionRemove(r)

Spec == Init /\ [][Next]_vars

SpecWide == InitWide /\ [][Next]_vars

\* Fairness: main, the scheduler task, a request in flight and the end of
\* a download task run on the runtime and are never suspended for ever; a
\* cancelled token keeps the cancellation branch of the select ready.  The
\* child process itself need not ever exit.
StartupStep == LoadResetCrashed \/ LoadQueuedJobs

SchedulerStep ==
    \/ ProcessNextReadMax
    \/ ProcessNextPop
    \/ ProcessNextGet
    \/ StartDownloadTask
    \/ Notified

CallStep == CancelDequeue \/ DeleteRow

Fairness ==
    /\ WF_vars(StartupStep)
    /\ WF_vars(SchedulerStep)
    /\ WF_vars(CallStep)
    /\ WF_vars(\E r \in runners : RunYtDlpCancelled(r))
    /\ WF_vars(\E r \in runners : CompletionRemove(r))

SpecLive == Init /\ [][Next]_vars /\ Fairness

SpecRunner == InitRunner /\ [][NextRunner]_vars

\* The same program with a store whose completion writes may fail.
NextFault ==
    \/ Next
    \/ \E r \in runners : CompletionWriteFails(r)

SpecFault == Init /\ [][NextFault]_vars

\* The file index alone: the threads of the server call get_index (the
\* list route), add_file (a finished download), delete_files and
\* build_index (the periodic rebuild) in any interleaving, MaxCalls calls
\* in all.
InitFiles == Start(MaxCalls)

NextIndex ==
    \/ \E p \in Paths : FileCreated(p)
    \/ ClockAdvance
    \/ \E t \in Threads : GetIndexCheck(t)
    \/ \E t \in Threads : GetIndexRead(t)
    \/ \E t \in Threads : GetIndexCache(t)
    \/ \E t \in Threads, p \in Paths : AddFileStat(t, p)
    \/ \E t \in Threads : AddFilePush(t)
    \/ \E t \in Threads : AddFileInvalidate(t)
    \/ \E t \in Threads, p \in Paths : DeleteFilesUnlink(t, p)
    \/ \E t \in Threads : RemoveFileRemove(t)
    \/ \E t \in Threads : RemoveFileInvalidate(t)
    \/ \E t \in Threads : BuildIndexScan(t)
    \/ \E t \in Threads : BuildIndexSwap(t)
    \/ \E t \in Threads : BuildIndexStamp(t)
    \/ \E t \in Threads : BuildIndexInvalidate(t)

SpecIndex == InitFiles /\ [][NextIndex]_vars

\* The same with one more call.
SpecIndexWide == Start(MaxCalls + 1) /\ [][NextIndex]_vars

\* remove_file as a method of the index: called with the paths the index
\* stores as well as with the absolute paths delete_files passes.
NextRemove ==
    \/ \E p \in Paths : FileCreated(p)
    \/ \E t \in Threads : GetIndexCheck(t)
    \/ \E t \in Threads : GetIndexRead(t)
    \/ \E t \in Threads : GetIndexCache(t)
    \/ \E t \in Threads, p \in Paths : AddFileStat(t, p)
    \/ \E t \in Threads : AddFilePush(t)
    \/ \E t \in Threads : AddFileInvalidate(t)
    \/ \E t \in Threads, p \in Paths : RemoveFileCall(t, p)
    \/ \E t \in Threads, p \in Paths : RemoveFileCall(t, canonicalize(p))
    \/ \E t \in Threads : RemoveFileRemove(t)
    \/ \E t \in Threads : RemoveFileInvalidate(t)
    \/ \E t \in Threads : BuildIndexScan(t)
    \/ \E t \in Threads : BuildIndexSwap(t)
    \/ \E t \in Threads : BuildIndexStamp(t)
    \/ \E t \in Threads : BuildIndexInvalidate(t)

SpecRemove == InitFiles /\ [][NextRemove]_vars

\* The sync manager alone: run_sync and get_sync_state called from two
\* threads, the spawned tasks and their rclone processes.
\* Downloads that end with success and readers of the index; no rebuild.
NextDownload ==
    \/ ClockAdvance
    \/ \E t \in Threads : RunYtDlpStart(t)
    \/ \E t \in Threads, p \in Paths : RunYtDlpWrote(t, p)
    \/ \E t \in Threads : CompletionAddFile(t)
    \/ \E t \in Threads : AddFilePush(t)
    \/ \E t \in Threads : AddFileInvalidate(t)
    \/ \E t \in Threads : GetIndexCheck(t)
    \/ \E t \in Threads : GetIndexRead(t)
    \/ \E t \in Threads : GetIndexCache(t)

SpecDownload == InitFiles /\ [][NextDownload]_vars

\* One sync after the other, with the lines rclone prints.
NextLogs ==
    \/ RunSyncCheck(1)
    \/ RunSyncSet(1)
    \/ RcloneSpawned(1)
    \/ LogLine(1)
    \/ RcloneExitedOk(1)
    \/ RcloneExitedFailed(1)
    \/ RcloneWaitFailed(1)

SpecLogs == InitFiles /\ [][NextLogs]_vars

NextSync ==
    \/ \E t \in Threads : RunSyncCheck(t)
    \/ \E t \in Threads : RunSyncSet(t)
    \/ \E t \in Threads : RcloneSpawned(t)
    \/ \E t \in Threads : RcloneSpawnFails(t)
    \/ \E t \in Threads : RcloneExitedOk(t)
    \/ \E t \in Threads : RcloneExitedFailed(t)
    \/ \E t \in Threads : RcloneWaitFailed(t)
    \/ GetSyncState
    \/ ClockAdvance

SpecSync == InitFiles /\ [][NextSync]_vars

\* The sync manager with files being downloaded and added to the index.
NextUnsynced ==
    \/ RunSyncCheck(1)
    \/ RunSyncSet(1)
    \/ RcloneSpawned(1)
    \/ RcloneExitedOk(1)
    \/ GetSyncState
    \/ ClockAdvance
    \/ \E p \in Paths : FileCreated(p)
    \/ \E p \in Paths : AddFileStat(2, p)
    \/ AddFilePush(2)
    \/ AddFileInvalidate(2)

SpecUnsynced == InitFiles /\ [][NextUnsynced]_vars

\* Submissions only: the server is up with an empty store and a ceiling
\* some set_max_concurrent has left, jobs are submitted, and no download
\* finishes.
InitSubmit ==
    /\ store = [id \in JobIds |-> NoRow]
    /\ queue = <<>>
    /\ active = [id \in JobIds |-> 0]
    /\ maxc \in 1..DefaultMaxConcurrent
    /\ permit = TRUE
    /\ sched = SchedStart
    /\ runners = {}
    /\ call = NoCall
    /\ main = "serving"
    /\ nextId = 1
    /\ left = MaxCalls
    /\ stale = {}
    /\ cq = {}
    /\ cd = {}
    /\ loaded = <<>>
    /\ task = TaskStart
    /\ IndexStart
    /\ SyncStart

NextSubmit ==
    \/ AddJob
    \/ ProcessNextReadMax
    \/ ProcessNextPop
    \/ ProcessNextGet
    \/ StartDownloadTask
    \/ Notified

SpecSubmit == InitSubmit /\ [][NextSubmit]_vars /\ WF_vars(SchedulerStep)

\* Submissions, retries and redownloads of any id, with the scheduler and
\* the runners it starts.
NextRetry ==
    \/ AddJob
    \/ \E id \in JobIds : RetryJob(id)
    \/ \E id \in JobIds : RedownloadJob(id)
    \/ ProcessNextReadMax
    \/ ProcessNextPop
    \/ ProcessNextGet
    \/ StartDownloadTask
    \/ Notified
    \/ \E r \in runners, name \in ResolvedNames : RunYtDlpExitedOk(r, name)
    \/ \E r \in runners : RunYtDlpExitedFailed(r)
    \/ \E r \in runners : CompletionRemove(r)

SpecRetry == InitSubmit /\ [][NextRetry]_vars

\* Submissions and explicit deletions of queued jobs only: the rows of the
\* store disappear by the delete_job route and by nothing else.
NextDelete ==
    \/ AddJob
    \/ \E id \in JobIds : /\ check_job_exists(store, id)
                           /\ store[id].status = "queued"
                           /\ DeleteJobRoute(id)
    \/ CancelDequeue
    \/ DeleteRow
    \/ ProcessNextReadMax
    \/ ProcessNextPop
    \/ ProcessNextGet
    \/ StartDownloadTask
    \/ Notified
    \/ \E r \in runners, name \in ResolvedNames : RunYtDlpExitedOk(r, name)
    \/ \E r \in runners : RunYtDlpCancelled(r)
    \/ \E r \in runners : CompletionRemove(r)

SpecDelete == InitSubmit /\ [][NextDelete]_vars

\* ------------------------------------------------------------------------
\* Properties
\* ------------------------------------------------------------------------
Downloading == {id \in JobIds : store[id].status = "downloading"}

LiveRunners(id) == {r \in runners : r.id = id /\ r.pc = "select"}

\* C1: in every reachable state at most N jobs have status downloading,
\* N being the concurrency ceiling in force.  No ceiling of the model is
\* above DefaultMaxConcurrent, so this is the weakest reading of the bound.
C1_AtMostCeilingDownloading ==
    Cardinality(Downloading) <= DefaultMaxConcurrent

\* C2: in every reachable state each job id has at most one live runner.
C2_OneLiveRunnerPerJob ==
    \A id \in JobIds : Cardinality(LiveRunners(id)) <= 1

\* C3: a job cancelled while queued, and not retried or redownloaded since,
\* is never downloading and has no runner.
C3_CancelledQueuedNeverStarts ==
    \A id \in cq :
        /\ store[id].status # "downloading"
        /\ ~\E r \in runners : r.id = id

CancelledRunners(id) == {r \in runners : r.id = id /\ r.cancelled}

\* C4 as stated: a job cancelled while downloading (and neither deleted nor
\* retried, nor lost in a restart) is eventually failed with error
\* "Cancelled" and out of the active registry.
C4_CancelYieldsCancelled ==
    \A id \in JobIds : (id \in cd) ~> (id \notin cd)

\* C4, amended: when cancel has cancelled the token of a runner of job id,
\* eventually no cancelled runner of id is left and id is out of the
\* active registry (the status written is "Cancelled" only if the
\* cancellation branch wins the race against the exit of the process).
C4_CancelledRunnerEnds ==
    \A id \in JobIds :
        (CancelledRunners(id) # {}) ~>
            (CancelledRunners(id) = {} /\ active[id] = 0)

C4_Witness ==
    \E id \in JobIds :
        /\ store[id].status = "failed"
        /\ store[id].error = "Cancelled"
        /\ active[id] = 0
        /\ CancelledRunners(id) = {}

\* C5: jobs are dispatched in the order in which they were appended: the
\* entry the scheduler has popped was appended before every entry still
\* pending, and the pending entries are in the order of their appends.
C5_FifoDispatch ==
    /\ \A i, j \in 1..Len(queue) : i < j => queue[i].tk < queue[j].tk
    /\ sched.pc \in {"get", "mark"} =>
           \A i \in 1..Len(queue) : sched.held.tk < queue[i].tk

C5_Witness ==
    /\ sched.pc = "mark"
    /\ Len(queue) >= 2
    /\ store[sched.held.id].status = "queued"

\* C6: while a job left downloading by the previous run has not been set
\* failed with error "crashed", no job is dispatched: there is no runner,
\* no registry entry, and the scheduler holds no job.
C6_CrashResetBeforeDispatch ==
    stale # {} =>
        /\ runners = {}
        /\ ActiveCount = 0
        /\ sched.held = NoHeld

C6_Witness ==
    /\ \E id \in JobIds :
           store[id].status = "failed" /\ store[id].error = "crashed"
    /\ \E r \in runners : r.pc = "select"

Occurrences(q, id) == Cardinality({i \in 1..Len(q) : q[i].id = id})

Ascending(ids) ==
    \A i, j \in 1..Len(ids) : i < j => createdAt(ids[i]) < createdAt(ids[j])

AllowedChange(old, new) ==
    \/ old = "absent"
    \/ new = "absent"
    \/ new = "queued"
    \/ old = "queued" /\ new = "downloading"
    \/ old = "downloading" /\ new \in {"done", "failed"}
    \/ old \in {"done", "imported"} /\ new = "missing"

\* C8: every change of a job's status is queued->downloading,
\* downloading->done, downloading->failed, done/imported->missing, or a
\* change to queued (which only retry and redownload make); creation and
\* deletion of the row aside.
C8_StatusTransitions ==
    [][\A id \in JobIds :
           store'[id].status # store[id].status =>
               AllowedChange(store[id].status, store'[id].status)]_vars

\* C9 as stated: a job's filename is set if and only if its status is done.
C9_FilenameIffDone ==
    \A id \in JobIds :
        check_job_exists(store, id) =>
            (store[id].filename # Null <=> store[id].status = "done")

\* C9, amended: a job whose status is done has its filename set (a file
\* name may stay set in other statuses).
C9_DoneHasFilename ==
    \A id \in JobIds : store[id].status = "done" => store[id].filename # Null

C9_Witness ==
    \E id \in JobIds : store[id].status = "done" /\ store[id].retries = 0

\* C10: while a job is downloading, the values written to its progress
\* field never decrease.
C10_ProgressNonDecreasing ==
    [][\A id \in JobIds :
           (store[id].status = "downloading"
                /\ store'[id].status = "downloading") =>
               store'[id].progress >= store[id].progress]_vars

\* C11: the output parser writes a job's progress or eta only while the job
\* is downloading and the parser's runner is still running it.
C11_ProgressOnlyWhileOwning ==
    [][(task'.read # task.read /\ store' # store) =>
          /\ store[task.id].status = "downloading"
          /\ \E r \in runners : r.id = task.id /\ r.pc = "select"]_vars

Requeued(id) ==
    /\ check_job_exists(store, id)
    /\ check_job_exists(store', id)
    /\ \/ store'[id].retries # store[id].retries
       \/ store'[id].status = "queued" /\ store[id].status # "queued"

\* C12: a retry or redownload of an existing job, whatever its status,
\* leaves the row queued with progress 0, eta, error and both timestamps
\* unset and retries one higher, and appends the id at the tail of the
\* pending queue.  (Every step that raises retries or makes an existing row
\* queued must be such a step.)
C12_RetryResetsAndAppends ==
    [][\A id \in JobIds :
           Requeued(id) =>
               /\ store'[id] = Job("queued", 0, NoEta, store[id].filename,
                                   store[id].retries + 1, Null, FALSE, FALSE)
               /\ Len(queue') = Len(queue) + 1
               /\ queue'[Len(queue')].id = id
               /\ \A i \in 1..Len(queue) : queue'[i].id = queue[i].id]_vars

C12_Witness ==
    \E id \in JobIds :
        /\ store[id].status = "queued"
        /\ store[id].retries = 1
        /\ store[id].filename # Null
        /\ store[id].progress = 0
        /\ Len(queue) >= 2
        /\ queue[Len(queue)].id = id

AllSubmitted == left = 0

FirstRunningRestQueued ==
    \A id \in 1..MaxCalls :
        store[id].status = IF id <= maxc THEN "downloading" ELSE "queued"

\* C13: with ceiling N and more than N jobs submitted in order while no
\* runner finishes, the system reaches and then stays in the state where
\* exactly the first N submitted jobs are downloading and the others are
\* queued.
C13_FirstNDownloadingRestQueued ==
    AllSubmitted ~> []FirstRunningRestQueued

C13_Witness ==
    /\ AllSubmitted
    /\ maxc = DefaultMaxConcurrent
    /\ FirstRunningRestQueued
    /\ sched.pc = "wait"
    /\ Len(queue) = MaxCalls - DefaultMaxConcurrent

RunnerOf(rs, id, tok) == {r \in rs : r.id = id /\ r.tok = tok}

\* C14: whenever a runner finishes, with any outcome and even if the store
\* writes of its completion handler fail, its job id is taken out of the
\* active registry and the scheduler is signalled; and every registry entry
\* belongs to a runner that has not finished.
C14_RunnerEndFreesSlot ==
    /\ [](\A id \in JobIds :
              active[id] # 0 => RunnerOf(runners, id, active[id]) # {})
    /\ [][\A r \in runners :
              (left' = left /\ RunnerOf(runners', r.id, r.tok) = {}) =>
                  (active'[r.id] = 0 /\ permit')]_vars

C14_Witness ==
    \E id \in JobIds :
        /\ main = "serving"
        /\ store[id].status = "downloading"
        /\ active[id] = 0
        /\ permit
        /\ \A r \in runners : r.id # id

\* C15: at most one rclone process exists at any time, whatever the
\* interleaving of two concurrent run_sync calls.
C15_AtMostOneRclone == Cardinality(Rclones) <= 1

\* C16: the status is never left at running once the attempt is over: when
\* it is running, a spawned sync task is still at work.
C16_NeverStaysRunning ==
    sync_state.status = "running" =>
        \E t \in Threads : sync[t].pc \in {"task", "child"}

\* C17: get_sync_state answers 0 when nothing was added to the index since
\* the last successful sync, and 1 when exactly one file was added since.
C17_UnsyncedAfterSync ==
    sync_view # <<>> =>
        /\ sync_view[1].pushes = 0 => sync_view[1].unsynced_count = 0
        /\ sync_view[1].pushes = 1 => sync_view[1].unsynced_count = 1

\* What get_index answers when called now.
NextView ==
    IF cached_index # <<>> THEN cached_index[1]
    ELSE FileIndexResponse(files, last_scan)

HasPath(s, p) == \E i \in 1..Len(s) : s[i].path = p

\* No file of another path in the flat list is as new as the file at p.
Newest(p) ==
    \A i \in 1..Len(files) :
        files[i].path # p => files[i].created_at < disk[p]

\* C18: once add_file(p) has returned for a file p that exists, get_index
\* lists p in the group of p's date folder, and first in that group when p
\* is the newest file.
C18_AddedFileListed ==
    \A p \in added :
        /\ HasPath(NextView.by_date[date_folder(p)], p)
        /\ Newest(p) => NextView.by_date[date_folder(p)][1].path = p

\* A mutator has written the flat list and not yet invalidated the cache.
MutationInProgress ==
    \E t \in Threads : ops[t].pc \in {"a_cache", "r_cache", "b_stamp", "b_cache"}

Count(s, x) == Cardinality({i \in 1..Len(s) : s[i] = x})

\* The groups hold the entries of the list, each as often as the list does,
\* under the folder of the entry.
GroupsExactly(by, list) ==
    \A d \in Folders :
        /\ \A i \in 1..Len(by[d]) :
              /\ by[d][i].date_folder = d
              /\ Count(by[d], by[d][i]) = Count(list, by[d][i])
        /\ \A i \in 1..Len(list) :
              list[i].date_folder = d => Count(by[d], list[i]) = Count(list, list[i])

NewestFirst(by) ==
    \A d \in Folders :
        \A i, j \in 1..Len(by[d]) :
            i < j => by[d][i].created_at >= by[d][j].created_at

\* C19: whenever no mutation is in progress, the cached view is absent or
\* groups exactly the files of the current flat list.
C19_CacheCoherent ==
    (cached_index # <<>> /\ ~MutationInProgress) =>
        GroupsExactly(cached_index[1].by_date, files)

\* A get_index overlapped a rebuild: its view, computed between the swap
\* and the time stamp, is cached after the rebuild has finished.
C19_Witness ==
    /\ cached_index # <<>>
    /\ \A t \in Threads : ops[t].pc = "idle"
    /\ files # <<>>
    /\ cached_index[1].last_scan # last_scan

\* C20: a view get_index returned holds every entry of the flat list once,
\* in the group of its date folder, each group newest first; and a
\* get_index called after others have returned, with no mutation in
\* between, returns the view they returned.
C20_ViewGroupsSortsRepeats ==
    /\ [](~MutationInProgress =>
            \A v \in seen : /\ GroupsExactly(v.by_date, files)
                            /\ NewestFirst(v.by_date))
    /\ [][\A t \in Threads :
            (GetIndexCheck(t) /\ cached_index # <<>>) =>
                seen \subseteq {cached_index[1]}]_vars

\* The list without its k-th entry.
Without(list, k) ==
    [i \in 1..(Len(list) - 1) |-> IF i < k THEN list[i] ELSE list[i + 1]]

\* C21: remove_file(p) takes one entry of path p out of the flat list when
\* there is one and leaves the other entries as they are and in order, leaves
\* the list as it is when there is none, and has invalidated the cached view
\* when it returns.
C21_RemoveFileFrame ==
    [][\A t \in Threads :
         /\ RemoveFileRemove(t) =>
               IF \E k \in 1..Len(files) : files[k].path = ops[t].path
               THEN \E k \in 1..Len(files) :
                        /\ files[k].path = ops[t].path
                        /\ files' = Without(files, k)
               ELSE files' = files
         /\ (ops[t].pc = "r_cache" /\ ops'[t].pc = "idle") =>
               cached_index' = <<>>]_vars

\* A view was cached, remove_file has taken an entry out of the list and
\* left another in it.
C21_Witness ==
    \E t \in Threads :
        /\ ops[t].op = "remove"
        /\ ops[t].pc = "r_cache"
        /\ ops[t].undone
        /\ cached_index # <<>>
        /\ files # <<>>

\* C22: set_max_concurrent(n) changes the ceiling and nothing else: the
\* store, the pending queue, the registry and the runners are as before;
\* with n = 0 the ceiling keeps its value and no signal is raised.
C22_SetMaxConcurrentFrame ==
    [][\A n \in Limits :
         SetMaxConcurrent(n) =>
             /\ UNCHANGED <<store, queue, active, runners, sched, call>>
             /\ maxc' = IF n = 0 THEN maxc ELSE n
             /\ n = 0 => permit' = permit]_vars

\* The ceiling was lowered to 1 under two running jobs, which run on.
C22_Witness ==
    /\ maxc = 1
    /\ \E q, r \in runners :
          /\ q.id # r.id
          /\ q.pc = "select" /\ r.pc = "select"
          /\ ~q.cancelled /\ ~r.cancelled
          /\ store[q.id].status = "downloading"
          /\ store[r.id].status = "downloading"

\* C23: retry and redownload of an id that has no row in the store change
\* nothing: the store, the pending queue, the registry, the runners and the
\* wake-up permit are as before.
C23_RetryMissingChangesNothing ==
    [][\A id \in JobIds :
         ((RetryJob(id) \/ RedownloadJob(id)) /\ ~check_job_exists(store, id)) =>
             UNCHANGED <<store, queue, active, runners, permit, sched>>]_vars

\* Requests were made and no job was ever added: they were retries and
\* redownloads of ids the store does not have.
C23_Witness ==
    /\ left < MaxCalls
    /\ nextId = 1
    /\ queue = <<>>
    /\ \A id \in JobIds : ~check_job_exists(store, id)

\* C24: a runner is started only for an id whose job is in the store with
\* status queued; a popped id whose job is missing or has another status is
\* dropped: nothing is written to the store, no registry entry is made and no
\* runner is started.
C24_OnlyQueuedDispatched ==
    [][/\ \A r \in runners' :
             RunnerOf(runners, r.id, r.tok) = {} =>
                 (check_job_exists(store, r.id) /\ store[r.id].status = "queued")
       /\ (ProcessNextGet /\ get_job(store, sched.held.id).status # "queued") =>
             UNCHANGED <<store, active, runners>>]_vars

\* One job was added and retried while queued, so its id was pending twice:
\* the first pop started its runner, the second was dropped.
C24_Witness ==
    /\ left = MaxCalls - 2
    /\ nextId = 2
    /\ store[1].status = "downloading"
    /\ store[1].retries = 1
    /\ queue = <<>>
    /\ sched.pc = "wait"
    /\ runners = {[id |-> 1, tok |-> 1, pc |-> "select", cancelled |-> FALSE]}

\* C25: once the explicit deletion of a job that was queued has completed
\* (cancel_job has run and the row is removed), no runner is started for
\* that id: the step that spawns the download task never spawns one whose
\* token is not cancelled for a job whose row is absent.
C25_NoRunnerAfterDelete ==
    [][StartDownloadTask =>
          \/ check_job_exists(store, sched.held.id)
          \/ \A r \in RunnerOf(runners, sched.held.id, sched.tok) : r.cancelled]_vars

\* C26: a job is recorded failed with reason "Cancelled" only by the
\* completion handler of a runner of that job whose cancellation was
\* requested; a runner whose process exits with a non-zero code records its
\* job failed with the reason that names the exit code; a runner whose
\* process exits with code zero records its job done with the file name.
C26_OutcomeRecorded ==
    [][/\ \A id \in JobIds :
             ( /\ check_job_exists(store', id)
               /\ store'[id].status = "failed"
               /\ store'[id].error = "Cancelled"
               /\ store'[id] # store[id] ) =>
                 \E r \in runners : r.id = id /\ r.pc = "select" /\ r.cancelled
       /\ \A r \in runners :
             (RunYtDlpExitedFailed(r) /\ check_job_exists(store, r.id)) =>
                 (store'[r.id].status = "failed" /\ store'[r.id].error = MsgExit)
       /\ \A r \in runners, name \in ResolvedNames :
             (RunYtDlpExitedOk(r, name) /\ check_job_exists(store, r.id)) =>
                 (store'[r.id].status = "done" /\ store'[r.id].filename = name)]_vars

\* The completion handler of a cancelled runner has recorded "Cancelled",
\* that of another runner the exit code of its process.
C26_Witness ==
    /\ \E r \in runners :
          /\ r.pc = "rm" /\ r.cancelled
          /\ store[r.id].status = "failed" /\ store[r.id].error = "Cancelled"
    /\ \E r \in runners :
          /\ r.pc = "rm" /\ ~r.cancelled
          /\ store[r.id].status = "failed" /\ store[r.id].error = MsgExit

\* C27: when a runner has succeeded and its completion handler has
\* finished, the flat list of the File Index has an entry for the file the
\* runner produced.
C27_ProducedFileIndexed ==
    [][\A t \in Threads :
          ( /\ ops[t].op = "download"
            /\ ops[t].pc \in {"d_done", "a_cache"}
            /\ ops'[t].pc = "idle" ) =>
              \E k \in 1..Len(files') : files'[k].path = ops[t].out]_vars

\* C28: the file name a successful run returns is the base name of the
\* path named by the last line read, before the exit is handled, that names
\* a file (a destination line, a merged-into line or an already-downloaded
\* line).
C28_LastNamedFileWins ==
    [][\A r \in runners :
          ( /\ RunYtDlpExitedOkFound(r)
            /\ task.named # <<>>
            /\ check_job_exists(store, r.id) ) =>
              store'[r.id].filename = file_name(task.named)]_vars

\* C29: when the process exits with code 0 and no line that names a file
\* was read, the run succeeds with the name "unknown.mp4": the job is
\* recorded done with that name, not failed.
C29_FallbackName ==
    [][\A r \in runners :
          ( /\ RunYtDlpExitedOkFound(r)
            /\ task.named = <<>>
            /\ check_job_exists(store, r.id) ) =>
              /\ store'[r.id].status = "done"
              /\ store'[r.id].filename = "unknown.mp4"]_vars

\* Lines were read, none of them named a file, and the job is done under
\* the fallback name.
C29_Witness ==
    /\ task.read > 0
    /\ task.named = <<>>
    /\ ~task.alive
    /\ \E r \in runners : r.id = task.id /\ r.pc = "rm" /\ ~r.cancelled
    /\ store[task.id].status = "done"
    /\ store[task.id].filename = "unknown.mp4"

\* C30: no wake-up is lost.  Whenever the head of the pending queue is a
\* job with status queued and fewer jobs than the ceiling are active, then
\* eventually a scheduling pass is starting the download task of that job,
\* or the job has stopped being a pending queued job with a free slot
\* (cancelled, deleted, its status changed, the ceiling lowered, the server
\* restarted); this for every interleaving of the signals of add_job,
\* retry_job, set_max_concurrent and the runners with the scheduler loop.
Pending(id) ==
    /\ main = "serving"
    /\ check_job_exists(store, id)
    /\ store[id].status = "queued"
    /\ ActiveCount < maxc

HeadReady(id) == Pending(id) /\ queue # <<>> /\ front(queue).id = id

Dispatching(id) == sched.pc = "mark" /\ sched.held.id = id

Withdrawn(id) ==
    ~(Pending(id) /\ (contains(queue, id) \/ sched.held.id = id))

C30_NoLostWakeup ==
    \A id \in JobIds : HeadReady(id) ~> (Dispatching(id) \/ Withdrawn(id))

\* Two jobs were submitted, and so two signals raised, before the loop came
\* to wait: one permit is stored, the loop is waiting, the head is ready.
C30_Witness ==
    /\ sched.pc = "wait"
    /\ permit
    /\ Len(queue) = 2
    /\ HeadReady(1)
    /\ store[2].status = "queued"
    /\ runners = {}

\* C31: the progress writes of one runner are rate-limited: whenever the
\* stdout task persists an update of its job, the update it persisted
\* before lies at least one second back.
Persists(line) == line.already # <<>> \/ (line.pct # NoPct /\ task.elapsed)

C31_UpdatesOneSecondApart ==
    [][\A line \in Lines :
          (StdoutLine(line) /\ Persists(line)) => ~task.fresh]_vars

\* C31, amended: an update read from a progress line is persisted only when
\* a second has gone by since the last such update (or since the task
\* started); a line re_already matches persists 100 with zero remaining
\* time at once, whatever was written before.
C31_ProgressLinesRateLimited ==
    [][\A line \in Lines : StdoutLine(line) =>
          /\ (line.pct # NoPct /\ ~task.elapsed) =>
                 (store' = store /\ task'.elapsed = task.elapsed)
          /\ (line.pct # NoPct /\ task.elapsed) => ~task'.elapsed
          /\ (line.already # <<>> /\ check_job_exists(store, task.id)) =>
                 (store'[task.id].progress = 100 /\ store'[task.id].eta = 0)]_vars

\* A percentage was persisted, a further progress line read within the
\* same second was skipped, and the row still holds the first percentage.
C31_Witness ==
    /\ task.read = 2
    /\ task.fresh
    /\ ~task.elapsed
    /\ task.found = <<>>
    /\ check_job_exists(store, task.id)
    /\ store[task.id].progress = 25

\* C32: while a sync runs the log buffer holds at most 101 entries; a log
\* task that appends a line leaves it as the newest entry and drops
\* nothing or the oldest entry only; the start of a run leaves the buffer
\* with the starting message alone.
C32_LogBufferBounded ==
    [][/\ sync_state'.status = "running" => Len(sync_state'.logs) <= LogCap + 1
       /\ sync_state'.appended # sync_state.appended =>
             /\ sync_state'.logs[Len(sync_state'.logs)] = sync_state'.appended
             /\ \/ sync_state'.logs = Append(sync_state.logs, sync_state'.appended)
                \/ sync_state'.logs =
                       Append(Tail(sync_state.logs), sync_state'.appended)
       /\ RunSyncSet(1) => sync_state'.logs = <<LogStarting>>]_vars

\* The buffer is full while the sync runs and the starting message has
\* been dropped: it holds the last 101 lines.
C32_Witness ==
    /\ sync_state.status = "running"
    /\ Len(sync_state.logs) = LogCap + 1
    /\ sync_state.logs[1] = 2
    /\ sync_state.appended = LogCap + 2

\* C33: the pending queue never holds the same job id twice.
C33_NoDuplicatePending ==
    \A i, j \in 1..Len(queue) : queue[i].id = queue[j].id => i = j

\* C34: no queued job is orphaned: while the server is up and no cancel or
\* delete call is under way, every job with status queued has its id in the
\* pending queue or is the id a scheduling pass has popped and holds.
C34_NoQueuedOrphan ==
    (main = "serving" /\ call = NoCall) =>
        \A id \in JobIds :
            (check_job_exists(store, id) /\ store[id].status = "queued") =>
                (contains(queue, id) \/ sched.held.id = id)

\* C35: while the server is up, a job with status downloading has an entry
\* in the active registry and a runner that has not ended.
C35_DownloadingIsActive ==
    main = "serving" =>
        \A id \in JobIds :
            (check_job_exists(store, id) /\ store[id].status = "downloading") =>
                /\ active[id] # 0
                /\ \E r \in runners : r.id = id /\ r.pc \in {"new", "select"}

\* C36: the flat list of the File Index never holds two entries with the
\* same path.
C36_NoDuplicatePath ==
    \A i, j \in 1..Len(files) : files[i].path = files[j].path => i = j

\* C37: a file registered with add_file is not lost by a rebuild: when
\* build_index installs its new list, every file that exists on the disk
\* and for which add_file has returned has an entry in the installed list.
C37_AddSurvivesRebuild ==
    [][\A t \in Threads : BuildIndexSwap(t) =>
          \A p \in added : disk[p] # 0 => HasPath(files', p)]_vars

\* C38: whenever no build_index is in progress, a cached view carries the
\* current last-scan time stamp of the index.
C38_CachedStampCurrent ==
    ((\A t \in Threads : ops[t].op # "build") /\ cached_index # <<>>) =>
        cached_index[1].last_scan = last_scan

\* C39: an ETA token SS stands for SS seconds, MM:SS for 60*MM+SS and
\* HH:MM:SS for 3600*HH+60*MM+SS, and the runner persists that number of
\* seconds with the progress update of a line that carries the token, for
\* each of the three forms.
Seconds(token) ==
    IF Len(token) = 1 THEN token[1]
    ELSE IF Len(token) = 2 THEN 60 * token[1] + token[2]
    ELSE 3600 * token[1] + 60 * token[2] + token[3]

C39_EtaPersisted ==
    [][\A line \in Lines :
          ( /\ StdoutLine(line)
            /\ line.pct # NoPct
            /\ task.elapsed
            /\ line.token # <<>>
            /\ check_job_exists(store, task.id) ) =>
              store'[task.id].eta = Seconds(line.token)]_vars

====
